---- MODULE Spec2Model ----
(***************************************************************************)
(* Model of xlsx_csv_to_CLC.py: conversion of tabular historian exports    *)
(* (.csv / .xlsx) into .clc files.                                         *)
(*                                                                         *)
(* Strings are sequences of one-character strings.  A raw cell of the      *)
(* table and a field of an output row are tagged records, because Python   *)
(* lists mix str, int and float.                                           *)
(***************************************************************************)
EXTENDS Integers, Sequences, FiniteSets, TLC

\* the extensions create_clc_table knows
CSV == <<"c","s","v">>

XLSX == <<"x","l","s","x">>

\* ------------------------------------------------------------------------
\* Strings
\* ------------------------------------------------------------------------

Upper == {"A","B","C","D","E","F","G","H","I","J","K","L","M",
          "N","O","P","Q","R","S","T","U","V","W","X","Y","Z"}

Lower == {"a","b","c","d","e","f","g","h","i","j","k","l","m",
          "n","o","p","q","r","s","t","u","v","w","x","y","z"}

Digits == <<"0","1","2","3","4","5","6","7","8","9">>

DigitChars == {Digits[i] : i \in 1..10}

\* the character class [A-Za-z0-9] of line 99
AlnumChars == Upper \cup Lower \cup DigitChars

\* str * n
RECURSIVE Rep(_, _)
Rep(s, n) == IF n <= 0 THEN <<>> ELSE s \o Rep(s, n - 1)

RECURSIVE Join(_)
Join(parts) == IF parts = <<>> THEN <<>> ELSE Head(parts) \o Join(Tail(parts))

\* re.sub('[^A-Za-z0-9]+', '', s): every run of non-alphanumerics is deleted
RECURSIVE SanitizeTag(_)
SanitizeTag(s) ==
    IF s = <<>> THEN <<>>
    ELSE IF Head(s) \in AlnumChars THEN <<Head(s)>> \o SanitizeTag(Tail(s))
    ELSE SanitizeTag(Tail(s))

\* re.sub(' +', ' ', s): every run of spaces becomes one space
RECURSIVE CollapseSpaces(_)
CollapseSpaces(s) ==
    IF s = <<>> THEN <<>>
    ELSE IF Head(s) = " " /\ Len(s) > 1 /\ s[2] = " " THEN CollapseSpaces(Tail(s))
    ELSE <<Head(s)>> \o CollapseSpaces(Tail(s))

\* str(n) for an integer n
RECURSIVE NatStr(_)
NatStr(n) == IF n < 10 THEN <<Digits[n + 1]>>
             ELSE NatStr(n \div 10) \o <<Digits[(n % 10) + 1]>>

IntStr(n) == IF n < 0 THEN <<"-">> \o NatStr(0 - n) ELSE NatStr(n)

\* ------------------------------------------------------------------------
\* Values: raw cells of the table and fields of the output rows
\* ------------------------------------------------------------------------

\* a str cell holding the characters s
Text(s) == [k |-> "text", s |-> s, m |-> 0, e |-> 0]

\* a float: m * 10^e (m not divisible by 10 unless zero)
Number(m, e) == [k |-> "num", s |-> <<>>, m |-> m, e |-> e]

\* an int field of an output row
IntF(n) == [k |-> "int", s |-> <<>>, m |-> n, e |-> 0]

\* a str cell whose characters denote the datetime t (ticks since the epoch
\* of the model), as dateutil's parse reads it
DateText(t) == [k |-> "datetext", s |-> <<>>, m |-> t, e |-> 0]

\* a float cell holding a spreadsheet serial date: d whole days since
\* 1899-12-30 plus the fraction f / TicksPerDay of a day
Serial(d, f) == [k |-> "serial", s |-> <<>>, m |-> d, e |-> f]

\* ------------------------------------------------------------------------
\* Tag Metadata Normalizer
\* ------------------------------------------------------------------------

MaxTagLen == 12

MaxDescLen == 40

\* the line numbers counted from the header alone, without its separator
LineOffset_NoSeparator == 8 - 1

\* idx + 8: seven header lines and one separator precede the metadata lines
LineOffset == 8

TagSep == <<"~","~","~">>

\* "line{}: {} variable length too long".format(line, tag)
VarTooLong(line, tag) ==
    <<"l","i","n","e">> \o IntStr(line) \o <<":"," ">> \o tag \o <<" ","v","a","r","i","a","b","l","e"," ","l","e","n","g","t","h"," ","t","o","o"," ","l","o","n","g">>

\* "line{}: {} description length too long".format(line, tag)
DescTooLong(line, tag) ==
    <<"l","i","n","e">> \o IntStr(line) \o <<":"," ">> \o tag \o <<" ","d","e","s","c","r","i","p","t","i","o","n"," ","l","e","n","g","t","h"," ","t","o","o"," ","l","o","n","g">>

\* "{}~~~{}~~~{}~~~{}".format(tag, tag, desc, units)
ClcString(tag, desc, units) ==
    tag \o TagSep \o tag \o TagSep \o desc \o TagSep \o units

\* re.sub and len(csv_table[0]) raise (TypeError, IndexError) when a header
\* cell is not a str or a header row is missing or shorter than row 0
TagsRaise(csv_table) ==
    \/ Len(csv_table) < 1
    \/ /\ Len(csv_table[1]) > 1
       /\ \/ Len(csv_table) < 3
          \/ \E r \in 1..3 : \E idx \in 2..Len(csv_table[1]) :
                \/ Len(csv_table[r]) < idx
                \/ csv_table[r][idx].k # "text"

\* the loop body with the id cut to the length the import accepts
TagsStep_Truncated(csv_table, idx, acc) ==
    LET tag   == SanitizeTag(csv_table[1][idx + 1].s)
        e1    == IF Len(tag) > MaxTagLen
                 THEN <<VarTooLong(idx + LineOffset, tag)>> ELSE <<>>
        desc  == CollapseSpaces(csv_table[2][idx + 1].s)
        e2    == IF Len(desc) > MaxDescLen
                 THEN <<DescTooLong(idx + LineOffset, tag)>> ELSE <<>>
        units == CollapseSpaces(csv_table[3][idx + 1].s)
        short == SubSeq(tag, 1, IF Len(tag) > MaxTagLen THEN MaxTagLen ELSE Len(tag))
    IN  [list1 |-> Append(acc.list1, ClcString(short, desc, units)),
         list2 |-> acc.list2 \o e1 \o e2]

\* one iteration of the loop of lines 98-114, for the 0-based column idx
TagsStep(csv_table, idx, acc) ==
    LET tag   == SanitizeTag(csv_table[1][idx + 1].s)
        e1    == IF Len(tag) > MaxTagLen
                 THEN <<VarTooLong(idx + LineOffset, tag)>> ELSE <<>>
        desc  == CollapseSpaces(csv_table[2][idx + 1].s)
        e2    == IF Len(desc) > MaxDescLen
                 THEN <<DescTooLong(idx + LineOffset, tag)>> ELSE <<>>
        units == CollapseSpaces(csv_table[3][idx + 1].s)
    IN  [list1 |-> Append(acc.list1, ClcString(tag, desc, units)),
         list2 |-> acc.list2 \o e1 \o e2]

RECURSIVE TagsLoop(_, _, _)
TagsLoop(csv_table, idx, acc) ==
    IF idx >= Len(csv_table[1]) THEN acc
    ELSE TagsLoop(csv_table, idx + 1, TagsStep(csv_table, idx, acc))

\* returns (list1, list2): the metadata lines and the length warnings
clc_tags_descriptions(csv_table) ==
    TagsLoop(csv_table, 1, [list1 |-> <<>>, list2 |-> <<>>])

\* ------------------------------------------------------------------------
\* Timestamp Reconstructor
\* ------------------------------------------------------------------------

\* Resolution of the model's clock: ticks per second.  A datetime is a
\* number of ticks since 2000-03-01 00:00:00, a timedelta a number of ticks.
\* (Python's datetime counts microseconds.)
TicksPerSec == 2

SecPerDay == 24 * 60 * 60

TicksPerDay == SecPerDay * TicksPerSec

\* the spreadsheet serial number of 2000-03-01 (2000-01-01 is 36526)
EpochSerial == 36526 + 60

\* the value of an operation that raised
Raised == [raised |-> TRUE]

\* round(x / d), Python 3: halves go to the even neighbour (x >= 0)
RoundDiv(x, d) ==
    LET q == x \div d
        r == x % d
    IN  IF 2 * r < d THEN q
        ELSE IF 2 * r > d THEN q + 1
        ELSE IF q % 2 = 0 THEN q ELSE q + 1

\* dateutil.parser.parse(cell): the datetime a date string denotes;
\* ParserError for a string that holds no date, TypeError for a float
parse(cell) ==
    IF cell.k = "datetext" THEN [raised |-> FALSE, t |-> cell.m] ELSE Raised

\* datetime.datetime(*xlrd.xldate_as_tuple(cell, 0)): the serial date rounded
\* to the nearest second; serial dates below 61 (ambiguous or zero), of the
\* year 10000 and later, and cells that are no float raise
xldate_as_datetime(cell) ==
    IF cell.k # "serial" THEN Raised
    ELSE LET seconds == RoundDiv(cell.e, TicksPerSec)
             xldays  == IF seconds = SecPerDay THEN cell.m + 1 ELSE cell.m
             secs    == IF seconds = SecPerDay THEN 0 ELSE seconds
         IN  IF xldays < 61 \/ xldays >= 2958466 THEN Raised
             ELSE [raised |-> FALSE,
                   t |-> ((xldays - EpochSerial) * SecPerDay + secs) * TicksPerSec]

\* returns [period, time_0]; raises when the table has no rows 3 and 4, when
\* a timestamp cell does not parse, and for an extension that sets no period
determine_period_t0(csv_table, extension) ==
    IF \/ extension \notin {CSV, XLSX}
       \/ Len(csv_table) < 5
       \/ Len(csv_table[4]) < 1 \/ Len(csv_table[5]) < 1
    THEN Raised
    ELSE LET time_0 == IF extension = CSV THEN parse(csv_table[4][1])
                       ELSE xldate_as_datetime(csv_table[4][1])
             time_1 == IF extension = CSV THEN parse(csv_table[5][1])
                       ELSE xldate_as_datetime(csv_table[5][1])
         IN  IF time_0.raised \/ time_1.raised THEN Raised
             ELSE [raised |-> FALSE, period |-> time_1.t - time_0.t,
                   time_0 |-> time_0.t]

Pad2(n) == <<Digits[(n \div 10) + 1], Digits[(n % 10) + 1]>>

Pad4(n) == Pad2(n \div 100) \o Pad2(n % 100)

\* the civil date [y, m, d] of the day number z (days since 2000-03-01)
CivilFromDays(z) ==
    LET yoe == (z - z \div 1460 + z \div 36524 - z \div 146096) \div 365
        doy == z - (365 * yoe + yoe \div 4 - yoe \div 100)
        mp  == (5 * doy + 2) \div 153
        d   == doy - (153 * mp + 2) \div 5 + 1
        m   == IF mp < 10 THEN mp + 3 ELSE mp - 9
    IN  [y |-> 2000 + yoe + (IF m <= 2 THEN 1 ELSE 0), m |-> m, d |-> d]

\* datetime.strftime(ts, "%m-%d-%Y %H:%M:%S"): the part of a second is dropped
strftime(ts) ==
    LET sec  == ts \div TicksPerSec
        date == CivilFromDays(sec \div SecPerDay)
        sod  == sec % SecPerDay
    IN  Pad2(date.m) \o <<"-">> \o Pad2(date.d) \o <<"-">> \o Pad4(date.y)
        \o <<" ">> \o Pad2(sod \div 3600) \o <<":">> \o Pad2((sod \div 60) % 60)
        \o <<":">> \o Pad2(sod % 60)

\* datetime_list: time_0 + ts * period for ts in range(0, len(csv_table) - 3)
datetime_list(csv_table, period_tup) ==
    [ts \in 1..(IF Len(csv_table) > 3 THEN Len(csv_table) - 3 ELSE 0) |->
        period_tup.time_0 + (ts - 1) * period_tup.period]

\* returns the list of CLC-formatted timestamp strings
convert_to_date(csv_table, period_tup) ==
    LET dl == datetime_list(csv_table, period_tup)
    IN  [i \in 1..Len(dl) |-> strftime(dl[i])]

get_timestamps(csv_table, extension) ==
    LET period_t0 == determine_period_t0(csv_table, extension)
    IN  IF period_t0.raised THEN Raised
        ELSE [raised |-> FALSE, ts |-> convert_to_date(csv_table, period_t0)]

\* ------------------------------------------------------------------------
\* Data Coercer
\* ------------------------------------------------------------------------

\* the data of a cell that float() does not convert
BadValue == -9999

Good == Text(<<"G">>)

Bad == Text(<<"B">>)

DigitVal(c) == CHOOSE n \in 0..9 : Digits[n + 1] = c

\* str.strip(): leading and trailing white space removed
RECURSIVE LStrip(_)
LStrip(s) == IF s # <<>> /\ Head(s) = " " THEN LStrip(Tail(s)) ELSE s

RECURSIVE RStrip(_)
RStrip(s) == IF s # <<>> /\ s[Len(s)] = " "
             THEN RStrip(SubSeq(s, 1, Len(s) - 1)) ELSE s

\* m * 10^e with the trailing zeros of m moved into e
RECURSIVE Normal(_, _)
Normal(m, e) ==
    IF m = 0 THEN Number(0, 0)
    ELSE IF m % 10 = 0 THEN Normal(m \div 10, e + 1)
    ELSE Number(m, e)

\* The scanner of float(str).  ph is what was read last: nothing ("start"),
\* the sign, digits before the point ("int"), a point with no digit yet
\* ("point"), a point or digits after it with a digit read ("frac"), the
\* exponent letter ("e"), its sign ("esign"), its digits ("exp").
ScanStart == [ph |-> "start", neg |-> FALSE, mant |-> 0, frac |-> 0,
              eneg |-> FALSE, expo |-> 0]

ScanStep(st, c) ==
    IF c \in DigitChars THEN
        IF st.ph \in {"start", "sign", "int"}
        THEN [st EXCEPT !.ph = "int", !.mant = 10 * st.mant + DigitVal(c)]
        ELSE IF st.ph \in {"point", "frac"}
        THEN [st EXCEPT !.ph = "frac", !.mant = 10 * st.mant + DigitVal(c),
                        !.frac = st.frac + 1]
        ELSE IF st.ph \in {"e", "esign", "exp"}
        THEN [st EXCEPT !.ph = "exp", !.expo = 10 * st.expo + DigitVal(c)]
        ELSE [st EXCEPT !.ph = "bad"]
    ELSE IF c \in {"+", "-"} THEN
        IF st.ph = "start" THEN [st EXCEPT !.ph = "sign", !.neg = (c = "-")]
        ELSE IF st.ph = "e" THEN [st EXCEPT !.ph = "esign", !.eneg = (c = "-")]
        ELSE [st EXCEPT !.ph = "bad"]
    ELSE IF c = "." THEN
        IF st.ph \in {"start", "sign"} THEN [st EXCEPT !.ph = "point"]
        ELSE IF st.ph = "int" THEN [st EXCEPT !.ph = "frac"]
        ELSE [st EXCEPT !.ph = "bad"]
    ELSE IF c \in {"e", "E"} THEN
        IF st.ph \in {"int", "frac"} THEN [st EXCEPT !.ph = "e"]
        ELSE [st EXCEPT !.ph = "bad"]
    ELSE [st EXCEPT !.ph = "bad"]

\* the only element of a one-element set
Only(S) == CHOOSE x \in S : TRUE

RECURSIVE Scan(_, _, _)
Scan(t, i, st) ==
    IF i > Len(t) THEN st
    ELSE Only({ Scan(t, i + 1, nxt) : nxt \in {ScanStep(st, t[i])} })

\* float(s) for a str s: white space stripped, an optional sign, digits with
\* an optional point (a digit on one side at least), an optional exponent.
\* ValueError for anything else.
StrToFloat(s) ==
    Only({ IF st.ph \in {"int", "frac", "exp"}
           THEN [raised |-> FALSE,
                 v |-> Normal(IF st.neg THEN 0 - st.mant ELSE st.mant,
                              (IF st.eneg THEN 0 - st.expo ELSE st.expo) - st.frac)]
           ELSE Raised :
           st \in {Scan(RStrip(LStrip(s)), 1, ScanStart)} })

\* float() with an empty cell read as zero
pyfloat_EmptyIsZero(cell) ==
    IF cell.k \in {"num", "serial"} THEN [raised |-> FALSE, v |-> cell]
    ELSE IF cell.k = "text" /\ cell.s = <<>> THEN [raised |-> FALSE, v |-> Number(0, 0)]
    ELSE IF cell.k = "text" THEN StrToFloat(cell.s)
    ELSE Raised

\* float(cell): a float cell is its own value, a str cell is parsed
pyfloat(cell) ==
    IF cell.k \in {"num", "serial"} THEN [raised |-> FALSE, v |-> cell]
    ELSE IF cell.k = "text" THEN StrToFloat(cell.s)
    ELSE Raised

\* lines 211-218: the value and the status of one cell
CoerceCell(cell) ==
    LET data == pyfloat(cell)
    IN  IF data.raised THEN <<IntF(BadValue), Bad>> ELSE <<data.v, Good>>

\* the data elements of one row: value and status of every cell from index 1
RECURSIVE CoerceRow(_, _)
CoerceRow(row, data_idx) ==
    IF data_idx >= Len(row) THEN <<>>
    ELSE CoerceCell(row[data_idx + 1]) \o CoerceRow(row, data_idx + 1)

format_data(csv_table) ==
    [r \in 1..(IF Len(csv_table) > 3 THEN Len(csv_table) - 3 ELSE 0) |->
        CoerceRow(csv_table[r + 3], 1)]

\* ------------------------------------------------------------------------
\* File Assembler
\* ------------------------------------------------------------------------

\* raises IndexError when there are fewer data rows than timestamps
data_section(timestamps, data) ==
    [time_idx \in 1..Len(timestamps) |->
        <<Text(timestamps[time_idx])>> \o data[time_idx]]

\* int(x / d): the quotient truncated towards zero
TruncDiv(x, d) == IF x >= 0 THEN x \div d ELSE 0 - ((0 - x) \div d)

Banner == <<"C","S","V"," ","t","o"," ","C","L","C"," ","F","i","l","e"," ","C","o","n","v","e","r","s","i","o","n">>

Attribution == <<"D","e","v","e","l","o","p","e","d"," ","b","y"," ","D",".","P","."," ","(","A","M","T",")">>

\* raises IndexError for an empty list of timestamps
header_section(csv_table, tag_list, timestamps, extension) ==
    LET period_t0 == determine_period_t0(csv_table, extension)
        period    == TruncDiv(period_t0.period, TicksPerSec)
    IN  << Text(Banner), Text(Attribution), IntF(Len(tag_list)),
           IntF(Len(tag_list)), Text(timestamps[1]), IntF(period),
           IntF(Len(timestamps)) >>

Separator == Text(Rep(<<"=">>, 50))

\* What reading a file gives: the table of the loader, or its failure
\* (open, csv.reader and xlrd.open_workbook raise on a file they cannot read)
Unreadable == [readable |-> FALSE, table |-> <<>>]

Readable(csv_table) == [readable |-> TRUE, table |-> csv_table]

\* the document without the separator between the metadata and the data
Assemble_NoSeparator(header, tag_list, data_s) ==
    [i \in 1..Len(header) |-> <<header[i]>>]
    \o << <<Separator>> >>
    \o [i \in 1..Len(tag_list) |-> <<Text(tag_list[i])>>]
    \o data_s
    \o << <<Separator>> >>

\* lines 307-322: header, separator, metadata, separator, data, separator
Assemble(header, tag_list, data_s) ==
    [i \in 1..Len(header) |-> <<header[i]>>]
    \o << <<Separator>> >>
    \o [i \in 1..Len(tag_list) |-> <<Text(tag_list[i])>>]
    \o << <<Separator>> >>
    \o data_s
    \o << <<Separator>> >>

\* file: what reading file_name gives.  An extension that is neither csv nor
\* xlsx leaves csv_table unbound (UnboundLocalError at line 298).
create_clc_table(file, extension) ==
    IF extension \notin {CSV, XLSX} \/ ~file.readable THEN Raised
    ELSE IF TagsRaise(file.table) THEN Raised
    ELSE LET csv_table  == file.table
             tags       == clc_tags_descriptions(csv_table)
             tag_list   == tags.list1
             errors     == tags.list2
             timestamps == get_timestamps(csv_table, extension)
         IN  IF timestamps.raised THEN Raised
             ELSE LET data   == format_data(csv_table)
                      data_s == data_section(timestamps.ts, data)
                      header == header_section(csv_table, tag_list,
                                               timestamps.ts, extension)
                  IN  [raised |-> FALSE,
                       write_list |-> Assemble(header, tag_list, data_s),
                       errors |-> errors]

\* ------------------------------------------------------------------------
\* Conversion Driver
\* ------------------------------------------------------------------------

\* the part of s before its first sep
RECURSIVE UpTo(_, _)
UpTo(s, sep) ==
    IF s = <<>> \/ Head(s) = sep THEN <<>> ELSE <<Head(s)>> \o UpTo(Tail(s), sep)

\* str.split(sep) for a one-character sep
RECURSIVE Split(_, _)
Split(s, sep) ==
    LET first == UpTo(s, sep)
    IN  IF Len(first) = Len(s) THEN <<s>>
        ELSE <<first>> \o Split(SubSeq(s, Len(first) + 2, Len(s)), sep)

\* a file that does not exist
NoFile == [exists |-> FALSE, rows |-> <<>>]

\* a file holding the rows csv.writer wrote
FileOf(rows) == [exists |-> TRUE, rows |-> rows]

\* Where a write fails: nowhere, when the output file is opened, or at a
\* writerow after k rows are written (OSError: no permission, disk full)
NoFault == [at |-> "none", k |-> 0]

\* lines 346-350 on the file system fs: the file is truncated on opening
\* and the rows are written one by one
WriteClc(fs, clc_file_name, table, fault) ==
    IF fault.at = "clc_open" THEN [raised |-> TRUE, fs |-> fs]
    ELSE IF fault.at = "clc_row" /\ fault.k < Len(table)
    THEN [raised |-> TRUE,
          fs |-> [fs EXCEPT ![clc_file_name] = FileOf(SubSeq(table, 1, fault.k))]]
    ELSE [raised |-> FALSE, fs |-> [fs EXCEPT ![clc_file_name] = FileOf(table)]]

\* lines 352-359: the error file is written only for a non-empty list
WriteErrors(fs, clc_error_file, errors, fault) ==
    LET rows == [i \in 1..Len(errors) |-> <<Text(errors[i])>>]
    IN  IF errors = <<>> THEN [raised |-> FALSE, fs |-> fs]
        ELSE IF fault.at = "err_open" THEN [raised |-> TRUE, fs |-> fs]
        ELSE IF fault.at = "err_row" /\ fault.k < Len(rows)
        THEN [raised |-> TRUE,
              fs |-> [fs EXCEPT ![clc_error_file] = FileOf(SubSeq(rows, 1, fault.k))]]
        ELSE [raised |-> FALSE, fs |-> [fs EXCEPT ![clc_error_file] = FileOf(rows)]]

\* the names line 337-340 derive from file_name
clc_str(file_name) == Split(file_name, ".")

clc_file_name(file_name) == clc_str(file_name)[1] \o <<".","c","l","c">>

clc_error_file(file_name) == clc_str(file_name)[1] \o <<"_","e","r","r","o","r","s",".","t","x","t">>

\* raises IndexError for a file name without '.'
file_extension(file_name) == clc_str(file_name)[2]

\* write_csv_file(file_name) on the file system fs, where reading file_name
\* gives file and the writes fail as fault says: whether it raised and the
\* file system it leaves
write_csv_file(fs, file_name, file, fault) ==
    IF Len(clc_str(file_name)) < 2 THEN [raised |-> TRUE, fs |-> fs]
    ELSE LET writes == create_clc_table(file, file_extension(file_name))
         IN  IF writes.raised THEN [raised |-> TRUE, fs |-> fs]
             ELSE LET w1 == WriteClc(fs, clc_file_name(file_name),
                                     writes.write_list, fault)
                  IN  IF w1.raised THEN w1
                      ELSE WriteErrors(w1.fs, clc_error_file(file_name),
                                       writes.errors, fault)

\* "{} conversion complete\n".format(files)
CompleteMsg(files) == files \o <<" ","c","o","n","v","e","r","s","i","o","n"," ","c","o","m","p","l","e","t","e","\n">>

\* "{} conversion failed\n".format(files)
FailedMsg(files) == files \o <<" ","c","o","n","v","e","r","s","i","o","n"," ","f","a","i","l","e","d","\n">>

\* ------------------------------------------------------------------------
\* Inputs
\* ------------------------------------------------------------------------

\* most tag columns of a table
MaxCols == 3

\* most rows of a table (three header rows and the data rows)
MaxRows == 6

\* longest string tried as a data cell
MaxCellLen == 3

\* most files selected in one batch
MaxBatch == 2

\* 2000-03-31 23:59:58: the series run over the end of a day and of a month
T0 == 31 * TicksPerDay - 2 * TicksPerSec

\* timestamps a whole or a part of a second apart
TimeOffsets == {0, 1, TicksPerSec}

\* the timestamp cell for the datetime T0 + k, as each loader returns it
TimeCell(ext, k) ==
    IF ext = CSV THEN DateText(T0 + k)
    ELSE Serial(EpochSerial + 30, TicksPerDay - 2 * TicksPerSec + k)

NoDate == Text(<<"n","/","a">>)

\* the timestamp cells of the first two data rows and of the rows after
TimeProfiles(ext) ==
    { [c0 |-> TimeCell(ext, a), c1 |-> TimeCell(ext, b), rest |-> r] :
        a \in TimeOffsets, b \in TimeOffsets, r \in {TimeCell(ext, 0), NoDate} }
    \cup { [c0 |-> NoDate, c1 |-> TimeCell(ext, 0), rest |-> NoDate] }

LongTag == Rep(<<"A">>, MaxTagLen + 1)

LongDesc == Rep(<<"d">>, MaxDescLen + 1)

\* a column: tag id, description, units and the data cells, taken in turn
ColA(ext) == [tag   |-> <<"T","A","G","_","1","!">>, desc  |-> <<"D","e","s","c"," "," ","A">>, units |-> <<"P","S","I">>,
              data  |-> <<Text(<<"1","0",".","0">>), Text(<<>>), Text(<<"a","b","c">>)>>]

ColB(ext) == [tag   |-> Rep(<<"A">>, MaxTagLen) \o <<"_">>,
              desc  |-> Rep(<<"d">>, 20) \o <<" "," ">> \o Rep(<<"d">>, MaxDescLen - 21),
              units |-> <<"F">>,
              data  |-> <<IF ext = CSV THEN Text(<<"1",".","5">>) ELSE Number(15, 0 - 1),
                          Text(<<"-">>)>>]

ColC(ext) == [tag   |-> LongTag, desc |-> Rep(<<"d">>, MaxDescLen),
              units |-> <<"m"," "," ","3">>,
              data  |-> <<Text(<<"2","e","1">>)>>]

ColD(ext) == [tag   |-> <<"T","2">>, desc |-> LongDesc, units |-> <<>>,
              data  |-> <<Text(<<" ","7"," ">>), Text(<<"1",",","5">>)>>]

ColE(ext) == [tag   |-> <<"-">> \o LongTag, desc |-> <<" ">> \o LongDesc,
              units |-> <<"F">>,
              data  |-> <<Text(<<"0">>)>>]

ColProfiles(ext) == {ColA(ext), ColB(ext), ColC(ext), ColD(ext), ColE(ext)}

\* the table with the given timestamp cells, columns and number of rows
MkTable(tp, cols, nrows) ==
    LET ncols == Len(cols)
        timeOf(r)    == IF r = 1 THEN tp.c0 ELSE IF r = 2 THEN tp.c1 ELSE tp.rest
        dataRow(r)   ==
            <<timeOf(r)>> \o
            [c \in 1..Len(cols) |->
                cols[c].data[((r - 1) % Len(cols[c].data)) + 1]]
    IN  << <<Text(<<"T","i","m","e">>)>> \o [c \in 1..ncols |-> Text(cols[c].tag)],
           <<Text(<<>>)>> \o [c \in 1..ncols |-> Text(cols[c].desc)],
           <<Text(<<>>)>> \o [c \in 1..ncols |-> Text(cols[c].units)] >>
        \o [r \in 1..(nrows - 3) |-> dataRow(r)]

ColSeqs(ext) ==
    UNION { [1..n -> ColProfiles(ext)] : n \in 1..(MaxCols - 1) }

\* the tables the pipeline is run on
Tables(ext) ==
    { MkTable(tp, cols, n) :
        tp \in TimeProfiles(ext), cols \in ColSeqs(ext), n \in 5..MaxRows }

CellChars == {"0", "1", ".", "-", "e", " ", "x"}

CellStrings == UNION { [1..n -> CellChars] : n \in 0..MaxCellLen }

\* tables with one column whose first data cell is any short string
ProbeTables ==
    { MkTable([c0 |-> TimeCell(CSV, 0), c1 |-> TimeCell(CSV, TicksPerSec),
               rest |-> NoDate],
              << [ColA(CSV) EXCEPT !.data = <<Text(s), Text(<<"1">>)>>] >>, 5) :
        s \in CellStrings }

\* the tables the files of a batch may hold
BatchTimes(ext) ==
    { [c0 |-> TimeCell(ext, a), c1 |-> TimeCell(ext, b), rest |-> NoDate] :
        a \in {0, TicksPerSec}, b \in {0, TicksPerSec} } \ 
    { [c0 |-> TimeCell(ext, TicksPerSec), c1 |-> TimeCell(ext, TicksPerSec),
       rest |-> NoDate] }

BatchTables(ext) ==
    { MkTable(tp, <<ColA(ext)>>, 5) : tp \in BatchTimes(ext) }
    \cup { MkTable([c0 |-> TimeCell(ext, 0), c1 |-> TimeCell(ext, TicksPerSec),
                    rest |-> NoDate], <<ColC(ext)>>, 5),
           MkTable([c0 |-> NoDate, c1 |-> TimeCell(ext, 0), rest |-> NoDate],
                   <<ColA(ext)>>, 5) }

\* the paths the file dialog may return
Paths == { <<"a",".","c","s","v">>, <<"a",".","x","l","s","x">>,
           <<"b",".","c","s","v">>, <<"a",".","b",".","c","s","v">> }

\* what a file is, whatever write_csv_file takes its extension to be
FileKind(file_name) == clc_str(file_name)[Len(clc_str(file_name))]

\* what reading file_name may give
Inputs(file_name) ==
    {Unreadable} \cup
    (IF FileKind(file_name) \in {CSV, XLSX}
     THEN { Readable(t) : t \in BatchTables(FileKind(file_name)) } ELSE {})

\* the places a write of n rows is made to fail at: before the first row,
\* half way and before the last row
FailAfter(n) == {0, n \div 2, n - 1} \cap 0..(n - 1)

\* the faults that can strike the writes of file_name when reading it gives file
FaultsFor(file_name, file) ==
    LET writes == IF Len(clc_str(file_name)) < 2 THEN Raised
                  ELSE create_clc_table(file, file_extension(file_name))
    IN  {NoFault} \cup
        (IF writes.raised THEN {}
         ELSE { [at |-> "clc_open", k |-> 0] }
              \cup { [at |-> "clc_row", k |-> k] : k \in FailAfter(Len(writes.write_list)) }
              \cup (IF writes.errors = <<>> THEN {}
                    ELSE { [at |-> "err_open", k |-> 0] }
                         \cup { [at |-> "err_row", k |-> k] :
                                  k \in FailAfter(Len(writes.errors)) }))

\* every output path write_csv_file may write
FsPaths == { clc_file_name(p) : p \in Paths } \cup { clc_error_file(p) : p \in Paths }

RECURSIVE Distinct(_)
Distinct(seq) ==
    \/ seq = <<>>
    \/ /\ \A i \in 2..Len(seq) : seq[i] # seq[1]
       /\ Distinct(Tail(seq))

\* the selections of the file dialog: distinct paths in the order selected
Batches ==
    { b \in UNION { [1..n -> Paths] : n \in 0..MaxBatch } : Distinct(b) }

\* ------------------------------------------------------------------------
\* State
\* ------------------------------------------------------------------------

VARIABLES
    pc,          \* where multi_file_conversion or the pipeline stands
    file_path,   \* the selected paths, in order
    idx,         \* the position in file_path of the next file
    messages,    \* the lines for the converted files
    fail_msg,    \* the lines for the failed files
    fs,          \* the output files: path -> file
    info,        \* the text of the showinfo box, once shown
    error,       \* the text of the showerror box, once shown
    attempts,    \* history: the calls of write_csv_file so far
    csv_table,   \* the table create_clc_table works on
    extension,   \* its extension
    tag_list,    \* clc_tags_descriptions: the metadata lines
    errors,      \* clc_tags_descriptions: the length warnings
    timestamps,  \* get_timestamps
    data,        \* format_data
    write_list   \* the assembled document

vars == << pc, file_path, idx, messages, fail_msg, fs, info, error, attempts,
           csv_table, extension, tag_list, errors, timestamps, data, write_list >>

batchVars == << file_path, idx, messages, fail_msg, fs, info, error, attempts >>

tableVars == << csv_table, extension, tag_list, errors, timestamps, data, write_list >>

NotShown == <<"(not shown)">>

BatchStart ==
    /\ file_path = <<>>
    /\ idx = 1
    /\ messages = <<>>
    /\ fail_msg = <<>>
    /\ fs = [p \in FsPaths |-> NoFile]
    /\ info = NotShown
    /\ error = NotShown
    /\ attempts = <<>>

TableStart ==
    /\ tag_list = <<>>
    /\ errors = <<>>
    /\ timestamps = <<>>
    /\ data = <<>>
    /\ write_list = <<>>

\* ------------------------------------------------------------------------
\* multi_file_conversion
\* ------------------------------------------------------------------------

Init ==
    /\ pc = "select"
    /\ BatchStart
    /\ TableStart
    /\ csv_table = <<>>
    /\ extension = <<>>

\* filedialog.askopenfilenames
SelectFiles ==
    /\ pc = "select"
    /\ file_path' \in Batches
    /\ pc' = "loop"
    /\ UNCHANGED << idx, messages, fail_msg, fs, info, error, attempts >>
    /\ UNCHANGED tableVars

\* the loop without its try: the first file that raises ends the batch
ConvertFile_NoTry ==
    /\ pc = "loop"
    /\ idx <= Len(file_path)
    /\ LET files == file_path[idx]
       IN  \E file \in Inputs(files) : \E fault \in FaultsFor(files, file) :
             LET r == write_csv_file(fs, files, file, fault)
             IN  /\ fs' = r.fs
                 /\ IF r.raised
                    THEN /\ idx' = Len(file_path) + 1
                         /\ UNCHANGED << messages, fail_msg >>
                    ELSE /\ messages' = messages \o CompleteMsg(files)
                         /\ idx' = idx + 1
                         /\ UNCHANGED fail_msg
                 /\ attempts' = Append(attempts,
                        [files |-> files, file |-> file, fault |-> fault,
                         raised |-> r.raised])
    /\ UNCHANGED << pc, file_path, info, error >>
    /\ UNCHANGED tableVars

\* one iteration of the loop of lines 380-386
ConvertFile ==
    /\ pc = "loop"
    /\ idx <= Len(file_path)
    /\ LET files == file_path[idx]
       IN  \E file \in Inputs(files) : \E fault \in FaultsFor(files, file) :
             LET r == write_csv_file(fs, files, file, fault)
             IN  /\ fs' = r.fs
                 /\ IF r.raised
                    THEN /\ fail_msg' = fail_msg \o FailedMsg(files)
                         /\ UNCHANGED messages
                    ELSE /\ messages' = messages \o CompleteMsg(files)
                         /\ UNCHANGED fail_msg
                 /\ attempts' = Append(attempts,
                        [files |-> files, file |-> file, fault |-> fault,
                         raised |-> r.raised])
    /\ idx' = idx + 1
    /\ UNCHANGED << pc, file_path, info, error >>
    /\ UNCHANGED tableVars

\* messagebox.showinfo after the loop
ShowInfo ==
    /\ pc = "loop"
    /\ idx > Len(file_path)
    /\ info' = messages
    /\ pc' = IF fail_msg # <<>> THEN "showerror" ELSE "done"
    /\ UNCHANGED << file_path, idx, messages, fail_msg, fs, error, attempts >>
    /\ UNCHANGED tableVars

\* messagebox.showerror, when a file failed
ShowError ==
    /\ pc = "showerror"
    /\ error' = fail_msg
    /\ pc' = "done"
    /\ UNCHANGED << file_path, idx, messages, fail_msg, fs, info, attempts >>
    /\ UNCHANGED tableVars

Next == SelectFiles \/ ConvertFile \/ ShowInfo \/ ShowError

Spec == Init /\ [][Next]_vars

\* ------------------------------------------------------------------------
\* create_clc_table, step by step, on a table
\* ------------------------------------------------------------------------

InitTable ==
    /\ pc = "loaded"
    /\ BatchStart
    /\ TableStart
    /\ extension \in {CSV, XLSX}
    /\ csv_table \in Tables(extension) \cup (IF extension = CSV THEN ProbeTables ELSE {})

\* line 298-300
Normalize ==
    /\ pc = "loaded"
    /\ IF TagsRaise(csv_table)
       THEN pc' = "raised" /\ UNCHANGED << tag_list, errors >>
       ELSE /\ tag_list' = clc_tags_descriptions(csv_table).list1
            /\ errors' = clc_tags_descriptions(csv_table).list2
            /\ pc' = "tags"
    /\ UNCHANGED << csv_table, extension, timestamps, data, write_list >>
    /\ UNCHANGED batchVars

\* line 301
Reconstruct ==
    /\ pc = "tags"
    /\ LET r == get_timestamps(csv_table, extension)
       IN  IF r.raised
           THEN pc' = "raised" /\ UNCHANGED timestamps
           ELSE pc' = "timestamps" /\ timestamps' = r.ts
    /\ UNCHANGED << csv_table, extension, tag_list, errors, data, write_list >>
    /\ UNCHANGED batchVars

\* line 302
Coerce ==
    /\ pc = "timestamps"
    /\ data' = format_data(csv_table)
    /\ pc' = "data"
    /\ UNCHANGED << csv_table, extension, tag_list, errors, timestamps, write_list >>
    /\ UNCHANGED batchVars

\* lines 304-324
AssembleTable ==
    /\ pc = "data"
    /\ write_list' = Assemble(header_section(csv_table, tag_list, timestamps, extension),
                              tag_list, data_section(timestamps, data))
    /\ pc' = "assembled"
    /\ UNCHANGED << csv_table, extension, tag_list, errors, timestamps, data >>
    /\ UNCHANGED batchVars

NextTable == Normalize \/ Reconstruct \/ Coerce \/ AssembleTable

SpecTable == InitTable /\ [][NextTable]_vars

\* ------------------------------------------------------------------------
\* Properties of create_clc_table (checked under SpecTable)
\* ------------------------------------------------------------------------

NCols == Len(csv_table[1])

NRows == Len(csv_table)

NTags == NCols - 1

NData == NRows - 3

IsSeparatorLine(line) == line = <<Text(Rep(<<"=">>, 50))>>

\* C4: the document is 7 header lines, a separator, C-1 metadata lines, a
\* separator, R-3 data lines and a separator, in that order, and every data
\* line is a timestamp followed by exactly C-1 pairs of a value and a quality
C4_DocumentLayout ==
    pc = "assembled" =>
        /\ Len(write_list) = 7 + 1 + NTags + 1 + NData + 1
        /\ \A n \in 1..Len(write_list) :
              IsSeparatorLine(write_list[n])
                  <=> n \in {8, 9 + NTags, 10 + NTags + NData}
        /\ \A n \in 1..7 : Len(write_list[n]) = 1
        /\ \A n \in 1..NTags :
              /\ Len(write_list[8 + n]) = 1
              /\ write_list[8 + n][1].k = "text"
              /\ write_list[8 + n][1].s = tag_list[n]
        /\ Len(tag_list) = NTags
        /\ \A r \in 1..NData :
              LET line == write_list[9 + NTags + r]
              IN  /\ Len(line) = 1 + 2 * NTags
                  /\ line[1] = Text(timestamps[r])
                  /\ \A c \in 1..NTags :
                        /\ line[2 * c].k \in {"num", "int", "serial"}
                        /\ line[2 * c + 1] \in {Good, Bad}

C4_Witness ==
    /\ pc = "assembled"
    /\ NCols = MaxCols
    /\ NRows = MaxRows
    /\ \E r \in 1..NData : \E c \in 1..NTags :
          write_list[9 + NTags + r][2 * c + 1] = Bad

\* What float() accepts, stated on the string as a whole: between the white
\* space, an optional sign, then digits with an optional point among them
\* (one digit at least), then optionally an exponent letter, an optional
\* sign and digits.
AllDigits(t, from, to) == \A i \in from..to : t[i] \in DigitChars

IsMantissa(t, from, to) ==
    /\ from <= to
    /\ \E i \in from..to : t[i] \in DigitChars
    /\ \A i \in from..to : t[i] \in DigitChars \cup {"."}
    /\ Cardinality({ i \in from..to : t[i] = "." }) <= 1

IsExponent(t, from, to) ==
    /\ from < to
    /\ t[from] \in {"e", "E"}
    /\ \/ AllDigits(t, from + 1, to)
       \/ /\ t[from + 1] \in {"+", "-"}
          /\ from + 1 < to
          /\ AllDigits(t, from + 2, to)

IsFloatLiteral(s) ==
    \E a \in 1..Len(s) : \E b \in a..Len(s) :
        /\ \A i \in 1..Len(s) : (i < a \/ i > b) => s[i] = " "
        /\ s[a] # " " /\ s[b] # " "
        /\ \E m \in {a, a + 1} :
              /\ m = a + 1 => s[a] \in {"+", "-"}
              /\ \E q \in m..b :
                    /\ IsMantissa(s, m, q)
                    /\ q = b \/ IsExponent(s, q + 1, b)

\* 10^n
RECURSIVE Pow10(_)
Pow10(n) == IF n <= 0 THEN 1 ELSE 10 * Pow10(n - 1)

\* the number the digits among s[from..to] denote
RECURSIVE DecValue(_, _, _)
DecValue(s, from, to) ==
    IF from > to THEN 0
    ELSE IF s[to] \in DigitChars
    THEN 10 * DecValue(s, from, to - 1) + DigitVal(s[to])
    ELSE DecValue(s, from, to - 1)

\* the number a float literal denotes, as [m, e] for m * 10^e
LiteralNumber(s) ==
    LET ePos  == IF \E i \in 1..Len(s) : s[i] \in {"e", "E"}
                 THEN CHOOSE i \in 1..Len(s) : s[i] \in {"e", "E"}
                 ELSE Len(s) + 1
        point == { i \in 1..(ePos - 1) : s[i] = "." }
        frac  == Cardinality({ i \in 1..(ePos - 1) :
                     s[i] \in DigitChars /\ \E p \in point : p < i })
        mneg  == \E i \in 1..(ePos - 1) : s[i] = "-"
        eneg  == \E i \in (ePos + 1)..Len(s) : s[i] = "-"
        mant  == DecValue(s, 1, ePos - 1)
        expo  == DecValue(s, ePos + 1, Len(s))
    IN  [m |-> IF mneg THEN 0 - mant ELSE mant,
         e |-> (IF eneg THEN 0 - expo ELSE expo) - frac]

\* the float field v is the number n.m * 10^(n.e)
SameNumber(v, n) ==
    LET lo == IF v.e < n.e THEN v.e ELSE n.e
    IN  /\ v.k = "num"
        /\ IF n.m = 0 THEN v.m = 0
           ELSE v.m * Pow10(v.e - lo) = n.m * Pow10(n.e - lo)

TwoDigits(ts, i) == 10 * DigitVal(ts[i]) + DigitVal(ts[i + 1])

SecondsOf(ts) ==
    LET m   == TwoDigits(ts, 1)
        d   == TwoDigits(ts, 4)
        y   == 100 * TwoDigits(ts, 7) + TwoDigits(ts, 9)
        yoe == (IF m <= 2 THEN y - 1 ELSE y) - 2000
        mp  == (m + 9) % 12
        doy == (153 * mp + 2) \div 5 + d - 1
        day == 365 * yoe + yoe \div 4 - yoe \div 100 + doy
    IN  day * SecPerDay + 3600 * TwoDigits(ts, 12) + 60 * TwoDigits(ts, 15)
        + TwoDigits(ts, 18)

\* the period of the table: row1_time - row0_time, in ticks
PeriodOf == determine_period_t0(csv_table, extension).period

\* C6: there are R-3 timestamps, the first one is the time of the first data
\* row and timestamp i is the first one plus i periods
C6_Affine ==
    pc \in {"timestamps", "data", "assembled"} =>
        /\ Len(timestamps) = NData
        /\ timestamps[1] = strftime(determine_period_t0(csv_table, extension).time_0)
        /\ \A i \in 1..NData :
              (SecondsOf(timestamps[i]) - SecondsOf(timestamps[1])) * TicksPerSec
                  = (i - 1) * PeriodOf

\* C7: a column whose sanitized id is longer than 12 characters gets exactly
\* one 'variable length too long' warning and no other column gets one, the
\* same for a description longer than 40 characters, and the metadata line
\* of every column carries the whole id and the whole description
IsAlnum(c) == c \in AlnumChars

\* s without every space that follows a space
RECURSIVE Collapsed(_)
Collapsed(s) ==
    IF Len(s) <= 1 THEN s
    ELSE IF s[Len(s)] = " " /\ s[Len(s) - 1] = " "
    THEN Collapsed(SubSeq(s, 1, Len(s) - 1))
    ELSE Append(Collapsed(SubSeq(s, 1, Len(s) - 1)), s[Len(s)])

Count(seq, x) == Cardinality({ i \in 1..Len(seq) : seq[i] = x })

TagOfColumn(c) == SelectSeq(csv_table[1][c + 1].s, IsAlnum)

DescOfColumn(c) == Collapsed(csv_table[2][c + 1].s)

UnitsOfColumn(c) == Collapsed(csv_table[3][c + 1].s)

C7_OversizeFlagged ==
    pc = "tags" =>
        /\ Len(tag_list) = NTags
        /\ \A c \in 1..NTags :
              LET tag  == TagOfColumn(c)
                  desc == DescOfColumn(c)
              IN  /\ Count(errors, VarTooLong(c + 8, tag))
                        = IF Len(tag) > 12 THEN 1 ELSE 0
                  /\ Count(errors, DescTooLong(c + 8, tag))
                        = IF Len(desc) > 40 THEN 1 ELSE 0
                  /\ tag_list[c] = tag \o <<"~","~","~">> \o tag \o <<"~","~","~">>
                                   \o desc \o <<"~","~","~">> \o UnitsOfColumn(c)
        /\ Len(errors) =
              Cardinality({ c \in 1..NTags : Len(TagOfColumn(c)) > 12 })
              + Cardinality({ c \in 1..NTags : Len(DescOfColumn(c)) > 40 })

C7_Witness ==
    /\ pc = "tags"
    /\ NTags = 2
    /\ Len(TagOfColumn(1)) = 13 /\ Len(DescOfColumn(1)) > 40
    /\ Len(TagOfColumn(2)) = 12 /\ Len(csv_table[1][3].s) = 13
    /\ Len(DescOfColumn(2)) = 40 /\ Len(csv_table[2][3].s) = 41
    /\ Len(errors) = 2
    /\ Len(tag_list[1]) = 13 + 3 + 13 + 3 + Len(DescOfColumn(1)) + 3
                           + Len(UnitsOfColumn(1))

\* the line of the document the first separator is on
FirstSeparator ==
    CHOOSE n \in 1..Len(write_list) :
        /\ IsSeparatorLine(write_list[n])
        /\ \A k \in 1..(n - 1) : ~IsSeparatorLine(write_list[k])

\* C8: every warning carries the 1-based number of the line of the document
\* that holds the metadata of its tag: the lines after the first separator
C8_WarningLines ==
    pc = "assembled" =>
        /\ \A c \in 1..NTags :
              write_list[FirstSeparator + c] = <<Text(tag_list[c])>>
        /\ \A k \in 1..Len(errors) :
              \E c \in 1..NTags :
                  \/ /\ errors[k] = VarTooLong(FirstSeparator + c, TagOfColumn(c))
                     /\ Len(TagOfColumn(c)) > 12
                  \/ /\ errors[k] = DescTooLong(FirstSeparator + c, TagOfColumn(c))
                     /\ Len(DescOfColumn(c)) > 40

C8_Witness ==
    /\ pc = "assembled"
    /\ NTags = 2
    /\ Len(TagOfColumn(1)) <= 12 /\ Len(DescOfColumn(1)) <= 40
    /\ Len(TagOfColumn(2)) > 12
    /\ errors = <<VarTooLong(10, TagOfColumn(2)), DescTooLong(10, TagOfColumn(2))>>

\* ------------------------------------------------------------------------
\* Properties of multi_file_conversion (checked under Spec)
\* ------------------------------------------------------------------------

\* what create_clc_table gives for an attempt
WritesOf(a) ==
    IF Len(clc_str(a.files)) < 2 THEN Raised
    ELSE create_clc_table(a.file, file_extension(a.files))

\* the lines of a message box
LinesOf(text) == IF text = NotShown THEN <<>> ELSE Split(text, "\n")

Listed(text, line) == \E i \in 1..Len(LinesOf(text)) : LinesOf(text)[i] = line

CompleteLine(files) == SubSeq(CompleteMsg(files), 1, Len(CompleteMsg(files)) - 1)

FailedLine(files) == SubSeq(FailedMsg(files), 1, Len(FailedMsg(files)) - 1)

\* the lines of the attempts that raised (or did not), in order
RECURSIVE Report(_, _)
Report(att, raised) ==
    IF att = <<>> THEN <<>>
    ELSE (IF att[1].raised = raised
          THEN (IF raised THEN FailedMsg(att[1].files) ELSE CompleteMsg(att[1].files))
          ELSE <<>>)
         \o Report(Tail(att), raised)

\* C1: the files are attempted once each in the order selected, whichever of
\* them fail; at the end every file is in exactly one of the two lists; and
\* in a batch of two whose first file cannot be read and whose second file
\* converts, the boxes show one failure and one success and the .clc file of
\* the second holds its whole document
C1_BatchIsolation ==
    /\ Len(attempts) = idx - 1
    /\ \A i \in 1..Len(attempts) : attempts[i].files = file_path[i]
    /\ messages = Report(attempts, FALSE)
    /\ fail_msg = Report(attempts, TRUE)
    /\ pc = "done" =>
          /\ Len(attempts) = Len(file_path)
          /\ \A i \in 1..Len(file_path) :
                Listed(info, CompleteLine(file_path[i]))
                    # Listed(error, FailedLine(file_path[i]))
          /\ \A i \in 1..Len(file_path) :
                Listed(error, FailedLine(file_path[i])) <=> attempts[i].raised
          /\ info = messages
          /\ error = IF fail_msg = <<>> THEN NotShown ELSE fail_msg
          /\ ( /\ Len(file_path) = 2
               /\ ~attempts[1].file.readable
               /\ ~WritesOf(attempts[2]).raised
               /\ attempts[2].fault = NoFault )
             => /\ info = CompleteMsg(file_path[2])
                /\ error = FailedMsg(file_path[1])
                /\ fs[clc_file_name(file_path[2])]
                      = FileOf(WritesOf(attempts[2]).write_list)

C1_Witness ==
    /\ pc = "done"
    /\ Len(file_path) = 2
    /\ ~attempts[1].file.readable
    /\ attempts[1].raised
    /\ ~attempts[2].raised
    /\ fs[clc_file_name(file_path[2])].exists

LastAttempt == attempts[Len(attempts)]

\* C2: when write_csv_file fails while it writes, no output file of that
\* input is left behind, whole or in part
C2_AtomicOrAbsent ==
    ( /\ attempts # <<>>
      /\ LastAttempt.raised
      /\ ~WritesOf(LastAttempt).raised )
    => /\ ~fs[clc_file_name(LastAttempt.files)].exists
       /\ ~fs[clc_error_file(LastAttempt.files)].exists

\* C3: a file whose second timestamp is not later than its first fails to
\* convert and leaves no output file
C3_NonPositivePeriodFails ==
    ( /\ attempts # <<>>
      /\ LastAttempt.file.readable
      /\ FileKind(LastAttempt.files) \in {CSV, XLSX}
      /\ ~determine_period_t0(LastAttempt.file.table,
                              FileKind(LastAttempt.files)).raised
      /\ determine_period_t0(LastAttempt.file.table,
                             FileKind(LastAttempt.files)).period <= 0 )
    => /\ LastAttempt.raised
       /\ ~fs[clc_file_name(LastAttempt.files)].exists

\* the last attempt that did not raise among those that write the error
\* file e, or 0
LastConversionTo(e) ==
    LET ok == { i \in 1..Len(attempts) :
                  /\ ~attempts[i].raised
                  /\ clc_error_file(attempts[i].files) = e }
    IN  IF ok = {} THEN 0 ELSE CHOOSE i \in ok : \A j \in ok : j <= i

\* C9: an _errors.txt file is there only when the last conversion that
\* writes it had warnings: a conversion without warnings leaves none
C9_ErrorsOnlyWhenDiagnostics ==
    \A p \in Paths :
        LET e == clc_error_file(p)
            i == LastConversionTo(e)
        IN  (i # 0 /\ WritesOf(attempts[i]).errors = <<>>) => ~fs[e].exists

\* the place of the last '.' of a path that has one
LastDot(p) == CHOOSE i \in 1..Len(p) : p[i] = "." /\ \A j \in (i + 1)..Len(p) : p[j] # "."

HasDot(p) == \E i \in 1..Len(p) : p[i] = "."

\* C10: the data path is the input path with the part after its last '.'
\* replaced by clc, the diagnostics path is the same base name with
\* _errors.txt appended, and the source kind is that same last part
C10_OutputPaths ==
    \A i \in 1..Len(attempts) :
        LET p    == attempts[i].files
            base == SubSeq(p, 1, LastDot(p) - 1)
        IN  HasDot(p) =>
              /\ clc_file_name(p) = base \o <<".","c","l","c">>
              /\ clc_error_file(p) = base \o <<"_","e","r","r","o","r","s",".","t","x","t">>
              /\ file_extension(p) = SubSeq(p, LastDot(p) + 1, Len(p))

====
